---- MODULE Spec2Model ----
(***************************************************************************)
(* Model of the Replik audio editor store (src/src/stores/                 *)
(* audioEditorStore.ts): the timeline model (tracks, selection, envelope   *)
(* points) and the snapshot history used by undo/redo.                     *)
(*                                                                         *)
(* Times are integers in hundredths of a second, so that the 0.01 s width  *)
(* of a split marker is the integer SplitWidth.                            *)
(***************************************************************************)
EXTENDS Integers, Sequences, FiniteSets, TLC

\* ---------------------------------------------------------------- bounds
MaxSteps  == 4      \* store calls explored from the initial state (Spec)
MaxPushes == 60     \* saveToHistory calls explored by SpecCap
MaxTracks == 2      \* track ids generateTrackId hands out
MaxPoints == 2      \* point ids generatePointId hands out

\* ------------------------------------------------------- program constants
HistoryLimit == 50  \* "Limit history to 50 states"
SplitWidth   == 1   \* end: splitPoint + 0.01
Null         == -1  \* null (ids and times of the model are >= 0)

Sec       == 100
Times     == {0, Sec}
Durations == {Sec, 2 * Sec}
Volumes   == {0, 6}
Positions == Times \cup {-Sec}
AbsentId  == 0       \* an id no track and no point has (ids start at 1)

Min(a, b) == IF a < b THEN a ELSE b
Max(a, b) == IF a > b THEN a ELSE b

VARIABLES
    tracks,               \* AudioTrack[]
    selectedTrackId,      \* string | null
    selectedRegionStart,  \* number | null
    selectedRegionEnd,    \* number | null
    cursorPosition,
    currentTime,
    duration,             \* timeline duration
    history,              \* HistoryState[]  (history[i+1] is the code's history[i])
    historyIndex,         \* -1 when empty
    error,                \* the last call threw (TypeError on undefined)
    ret,                  \* what the last call returned: the answer of
                          \* canUndo()/canRedo(), FALSE for a void call
    nextTrackId,          \* ids generateTrackId has handed out so far
    nextPointId,          \* ids generatePointId has handed out so far
    budget,               \* calls still to be explored
    lastKind,             \* kind of the last store call (see Kinds)
    saves,                \* number of saveToHistory runs so far
    phase,                \* progress through save; A; save; B; undo; redo
    lastSaved,            \* live state when saveToHistory last ran  (both are
    preUndo,              \* live state when undo was last called    NoSnapshot
                          \* outside the call sequence phase follows)
    changed,              \* the last call changed tracks
    discarded,            \* redo snapshots the last call's saveToHistory
                          \* dropped; -1 when the call ran no saveToHistory
    jobs,                 \* pipeline calls (IPC invocations) made so far
    processing,           \* the editor's processing flag (overlay shown)
    timers,               \* pending setTimeout callbacks of the editor
    keyClosure,           \* what the registered keydown handler closes over
    wavesurferInstances,  \* the tracks the waveform callbacks close over
    speed,                \* changeSpeed's last argument, in 1/SpeedDen
    filters,              \* the atempo stages changeSpeed built for it
    regionTrack,          \* the track whose waveform last reported a region
    volumePoints,         \* applyVolumeEnvelope's point list
    volumeExpr,           \* the expression it compiled, token by token
    envelope,             \* what that call did: copy, engine calls, result
    effectFilter,         \* the atempo stages handed to the engine's
                          \* audioFilters by the last speed effect
    autoSaveTimer,        \* sessionManager's timer handle, 0 for null
    timeouts,             \* every timer setTimeout handed out, by handle
    cancelled,            \* cancelAutoSave returned and scheduleAutoSave
                          \* has not been called since
    clock                 \* Date.now() of the main process

storeVars == <<tracks, selectedTrackId, selectedRegionStart, selectedRegionEnd,
               cursorPosition, currentTime, duration, history, historyIndex>>
vars == <<tracks, selectedTrackId, selectedRegionStart, selectedRegionEnd,
          cursorPosition, currentTime, duration, history, historyIndex,
          error, ret, nextTrackId, nextPointId, budget, lastKind, saves, phase,
          lastSaved, preUndo, changed, discarded,
          jobs, processing, timers, keyClosure, wavesurferInstances,
          speed, filters, regionTrack, volumePoints, volumeExpr, envelope,
          effectFilter, autoSaveTimer, timeouts, cancelled, clock>>
\* the store and the bookkeeping of its calls
callVars == <<tracks, selectedTrackId, selectedRegionStart, selectedRegionEnd,
              cursorPosition, currentTime, duration, history, historyIndex,
              error, ret, nextTrackId, nextPointId, budget, lastKind, saves,
              phase, lastSaved, preUndo, changed, discarded>>
\* what the store does not touch
auxVars == <<jobs, processing, timers, keyClosure, wavesurferInstances,
            speed, filters, regionTrack, volumePoints, volumeExpr, envelope,
            effectFilter, autoSaveTimer, timeouts, cancelled, clock>>
\* the volume envelope call, the speed effect's filter and the auto-save
lateVars == <<volumePoints, volumeExpr, envelope, effectFilter,
             autoSaveTimer, timeouts, cancelled, clock>>
\* the editor component's own state
editorVars == <<processing, timers, keyClosure, wavesurferInstances>>

\* get(): the store as one record; saved counts the saveToHistory runs of a call
State ==
    [tracks |-> tracks, selectedTrackId |-> selectedTrackId,
     selectedRegionStart |-> selectedRegionStart,
     selectedRegionEnd |-> selectedRegionEnd,
     cursorPosition |-> cursorPosition, currentTime |-> currentTime,
     duration |-> duration, history |-> history, historyIndex |-> historyIndex,
     error |-> FALSE, saved |-> 0]

\* HistoryState: the four fields a snapshot holds
Snapshot(s) ==
    [tracks |-> s.tracks, selectedTrackId |-> s.selectedTrackId,
     selectedRegionStart |-> s.selectedRegionStart,
     selectedRegionEnd |-> s.selectedRegionEnd]

Live == Snapshot(State)

InitialState ==
    [tracks |-> <<>>, selectedTrackId |-> Null, selectedRegionStart |-> Null,
     selectedRegionEnd |-> Null, cursorPosition |-> 0, currentTime |-> 0,
     duration |-> 0, history |-> <<>>, historyIndex |-> -1,
     error |-> FALSE, saved |-> 0]

\* ------------------------------------------------------------ pure helpers
\* structuredClone: a deep copy has the same content
structuredClone(x) == x

RECURSIVE MaxEnd(_)
\* tracks.reduce((max, track) => Math.max(max, track.offset + track.duration), 0)
MaxEnd(ts) ==
    IF ts = <<>> THEN 0
    ELSE Max(MaxEnd(SubSeq(ts, 1, Len(ts) - 1)),
             ts[Len(ts)].offset + ts[Len(ts)].duration)

RECURSIVE WithoutId(_, _)
\* array.filter(x => x.id !== id)
WithoutId(s, id) ==
    IF s = <<>> THEN <<>>
    ELSE IF s[1].id # id THEN <<s[1]>> \o WithoutId(Tail(s), id)
         ELSE WithoutId(Tail(s), id)

\* one step of a stable sort: p goes after every element with time <= p.time
InsertByTime(sorted, p) ==
    LET k == Cardinality({i \in 1..Len(sorted) : sorted[i].time <= p.time})
    IN  SubSeq(sorted, 1, k) \o <<p>> \o SubSeq(sorted, k + 1, Len(sorted))

RECURSIVE SortByTime(_)
\* array.sort((a, b) => a.time - b.time), stable
SortByTime(s) ==
    IF s = <<>> THEN <<>>
    ELSE InsertByTime(SortByTime(SubSeq(s, 1, Len(s) - 1)), s[Len(s)])

\* { ...t, ...updates }
Merge(t, updates) == updates @@ t

\* tracks.find(t => t.id === id) exists
HasTrack(ts, id) == \E i \in 1..Len(ts) : ts[i].id = id
FindTrack(ts, id) == ts[CHOOSE i \in 1..Len(ts) :
                          /\ ts[i].id = id
                          /\ \A j \in 1..(i - 1) : ts[j].id # id]

\* array.slice(0, end) for end >= 0
Slice(h, end) == SubSeq(h, 1, Min(Max(end, 0), Len(h)))

\* array[i] is defined (not undefined) for the code's 0-based index i
Defined(h, i) == i >= 0 /\ i < Len(h)
At(h, i) == h[i + 1]

\* --------------------------------------------------------------- history
\* saveToHistory without the 50-state limit
saveToHistory_noEvict(s) ==
    LET snapshot == [tracks |-> structuredClone(s.tracks),
                     selectedTrackId |-> s.selectedTrackId,
                     selectedRegionStart |-> s.selectedRegionStart,
                     selectedRegionEnd |-> s.selectedRegionEnd]
        newHistory == Append(Slice(s.history, s.historyIndex + 1), snapshot)
    IN  [s EXCEPT !.history = newHistory,
                  !.historyIndex = Len(newHistory) - 1,
                  !.saved = @ + 1]

\* saveToHistory that appends without discarding the redo states
saveToHistory_noTruncate(s) ==
    LET snapshot == [tracks |-> structuredClone(s.tracks),
                     selectedTrackId |-> s.selectedTrackId,
                     selectedRegionStart |-> s.selectedRegionStart,
                     selectedRegionEnd |-> s.selectedRegionEnd]
        pushed == Append(s.history, snapshot)
        newHistory == IF Len(pushed) > HistoryLimit THEN Tail(pushed) ELSE pushed
    IN  [s EXCEPT !.history = newHistory,
                  !.historyIndex = Len(newHistory) - 1,
                  !.saved = @ + 1]

\* saveToHistory: push a snapshot of the current state
saveToHistory(s) ==
    LET snapshot == [tracks |-> structuredClone(s.tracks),
                     selectedTrackId |-> s.selectedTrackId,
                     selectedRegionStart |-> s.selectedRegionStart,
                     selectedRegionEnd |-> s.selectedRegionEnd]
    IN  IF Len(s.history) = 0
        THEN [s EXCEPT !.history = <<snapshot>>, !.historyIndex = 0,
                       !.saved = @ + 1]
        ELSE LET pushed == Append(Slice(s.history, s.historyIndex + 1), snapshot)
                 newHistory == IF Len(pushed) > HistoryLimit
                               THEN Tail(pushed) ELSE pushed
             IN  [s EXCEPT !.history = newHistory,
                           !.historyIndex = Len(newHistory) - 1,
                           !.saved = @ + 1]

\* applying a snapshot to the live state (the set({...}) of undo and redo)
Restore(s, snap, index) ==
    [s EXCEPT !.tracks = structuredClone(snap.tracks),
              !.selectedTrackId = snap.selectedTrackId,
              !.selectedRegionStart = snap.selectedRegionStart,
              !.selectedRegionEnd = snap.selectedRegionEnd,
              !.historyIndex = index]

\* undo that only checks for an empty history
undo_unguarded(s) ==
    IF Len(s.history) = 0 THEN s
    ELSE IF ~Defined(s.history, s.historyIndex - 1)
         THEN [s EXCEPT !.error = TRUE]
         ELSE Restore(s, At(s.history, s.historyIndex - 1), s.historyIndex - 1)

\* undo that stores the live state in the current history slot before it
\* restores the previous one
undo_overwrite(s) ==
    IF Len(s.history) = 0 \/ s.historyIndex <= 0 THEN s
    ELSE Restore([s EXCEPT !.history[s.historyIndex + 1] = Snapshot(s)],
                 At(s.history, s.historyIndex - 1), s.historyIndex - 1)

undo(s) ==
    IF Len(s.history) = 0 \/ s.historyIndex <= 0 THEN s
    ELSE IF ~Defined(s.history, s.historyIndex - 1)
         THEN [s EXCEPT !.error = TRUE]      \* prevState.tracks of undefined
         ELSE Restore(s, At(s.history, s.historyIndex - 1), s.historyIndex - 1)

redo(s) ==
    IF s.historyIndex < Len(s.history) - 1
    THEN IF ~Defined(s.history, s.historyIndex + 1)
         THEN [s EXCEPT !.error = TRUE]      \* nextState.tracks of undefined
         ELSE Restore(s, At(s.history, s.historyIndex + 1), s.historyIndex + 1)
    ELSE s

canUndo(s) == s.historyIndex > 0
canRedo(s) == s.historyIndex < Len(s.history) - 1

\* reset that leaves historyIndex alone
reset_keepIndex(s) ==
    [s EXCEPT !.tracks = <<>>, !.selectedTrackId = Null,
              !.selectedRegionStart = Null, !.selectedRegionEnd = Null,
              !.cursorPosition = 0, !.currentTime = 0, !.duration = 0,
              !.history = <<>>]

reset(s) ==
    [s EXCEPT !.tracks = <<>>, !.selectedTrackId = Null,
              !.selectedRegionStart = Null, !.selectedRegionEnd = Null,
              !.cursorPosition = 0, !.currentTime = 0, !.duration = 0,
              !.history = <<>>, !.historyIndex = -1]

\* ------------------------------------------------------------ track model
\* the AudioTrack addTrack builds for a take
NewTrack(id, take, offset) ==
    [id |-> id, take |-> take, offset |-> offset, duration |-> take.duration,
     muted |-> FALSE, solo |-> FALSE, volume |-> 1, gain |-> 0,
     regions |-> <<>>, envelopePoints |-> <<>>]

addTrack(s, take, id) ==
    LET saved == saveToHistory(s)
        maxEnd == MaxEnd(s.tracks)
        newTrack == NewTrack(id, take, maxEnd)
    IN  [saved EXCEPT !.tracks = Append(saved.tracks, newTrack),
                      !.duration = Max(saved.duration, maxEnd + take.duration)]

removeTrack(s, trackId) ==
    LET saved == saveToHistory(s)
    IN  [saved EXCEPT !.tracks = WithoutId(saved.tracks, trackId),
                      !.selectedTrackId = IF saved.selectedTrackId = trackId
                                          THEN Null ELSE saved.selectedTrackId]

updateTrack(s, trackId, updates) ==
    [s EXCEPT !.tracks = [i \in 1..Len(s.tracks) |->
                            IF s.tracks[i].id = trackId
                            THEN Merge(s.tracks[i], updates)
                            ELSE s.tracks[i]]]

setTracks(s, newTracks) ==
    LET saved == saveToHistory(s)
    IN  [saved EXCEPT !.tracks = newTracks, !.duration = MaxEnd(newTracks)]

clearTracks(s) ==
    LET saved == saveToHistory(s)
    IN  [saved EXCEPT !.tracks = <<>>, !.selectedTrackId = Null,
                      !.selectedRegionStart = Null, !.selectedRegionEnd = Null,
                      !.duration = 0]

selectTrack(s, trackId) == [s EXCEPT !.selectedTrackId = trackId]

setSelection(s, start, end) ==
    [s EXCEPT !.selectedRegionStart = start, !.selectedRegionEnd = end]

setCursorPosition(s, position) ==
    [s EXCEPT !.cursorPosition = Max(0, position),
              !.currentTime = Max(0, position)]

deleteSelection(s) ==
    IF s.selectedTrackId = Null \/ s.selectedRegionStart = Null
       \/ s.selectedRegionEnd = Null
    THEN s
    ELSE LET saved == saveToHistory(s)
         IN  [saved EXCEPT !.selectedRegionStart = Null,
                           !.selectedRegionEnd = Null]

splitAtCursor(s) ==
    IF s.selectedTrackId = Null THEN s
    ELSE IF ~HasTrack(s.tracks, s.selectedTrackId) THEN s
    ELSE LET track == FindTrack(s.tracks, s.selectedTrackId)
             cursorInTrack == /\ s.cursorPosition >= track.offset
                              /\ s.cursorPosition <= track.offset + track.duration
         IN  IF ~cursorInTrack THEN s
             ELSE LET saved == saveToHistory(s)
                      splitPoint == s.cursorPosition - track.offset
                      newRegion == [start |-> splitPoint,
                                    end |-> splitPoint + SplitWidth]
                  IN  [saved EXCEPT !.tracks = [i \in 1..Len(saved.tracks) |->
                          IF saved.tracks[i].id = saved.selectedTrackId
                          THEN [saved.tracks[i] EXCEPT
                                   !.regions = Append(@, newRegion)]
                          ELSE saved.tracks[i]]]

selectAll(s) ==
    IF s.selectedTrackId = Null THEN s
    ELSE IF ~HasTrack(s.tracks, s.selectedTrackId) THEN s
    ELSE LET track == FindTrack(s.tracks, s.selectedTrackId)
         IN  [s EXCEPT !.selectedRegionStart = track.offset,
                       !.selectedRegionEnd = track.offset + track.duration]

clearSelection(s) ==
    [s EXCEPT !.selectedRegionStart = Null, !.selectedRegionEnd = Null]

\* -------------------------------------------------------------- envelopes
addEnvelopePoint(s, trackId, time, volume, pointId) ==
    LET saved == saveToHistory(s)
        newPoint == [id |-> pointId, time |-> time, volume |-> volume]
    IN  [saved EXCEPT !.tracks = [i \in 1..Len(saved.tracks) |->
            IF saved.tracks[i].id = trackId
            THEN [saved.tracks[i] EXCEPT
                     !.envelopePoints = SortByTime(Append(@, newPoint))]
            ELSE saved.tracks[i]]]

updateEnvelopePoint(s, trackId, pointId, updates) ==
    [s EXCEPT !.tracks = [i \in 1..Len(s.tracks) |->
        IF s.tracks[i].id = trackId
        THEN [s.tracks[i] EXCEPT !.envelopePoints =
                 SortByTime([j \in 1..Len(@) |->
                     IF @[j].id = pointId THEN Merge(@[j], updates) ELSE @[j]])]
        ELSE s.tracks[i]]]

removeEnvelopePoint(s, trackId, pointId) ==
    LET saved == saveToHistory(s)
    IN  [saved EXCEPT !.tracks = [i \in 1..Len(saved.tracks) |->
            IF saved.tracks[i].id = trackId
            THEN [saved.tracks[i] EXCEPT
                     !.envelopePoints = WithoutId(@, pointId)]
            ELSE saved.tracks[i]]]

\* --------------------------------------------------------- audio pipeline
\* AudioProcessor (the main process side of the IPC calls).  A job is one
\* IPC invocation; its pc names the engine call it is awaiting.  Files are
\* named by their role: the temporaries of a call, "input", "output" and
\* the "list" file concatenate hands to ffmpeg.
TempFiles == {"before", "selection", "processed", "after"}

\* calls of the transform engine (ffprobe / ffmpeg)
ProbeCall == [fn |-> "probe", src |-> <<"input">>, dst |-> "none",
              start |-> 0, len |-> 0]
TrimCall(src, dst, startTime, len) ==
    [fn |-> "trim", src |-> <<src>>, dst |-> dst, start |-> startTime,
     len |-> len]
FilterCall(src, dst) ==
    [fn |-> "transform", src |-> <<src>>, dst |-> dst, start |-> 0, len |-> 0]
ConcatCall(parts, dst) ==
    [fn |-> "concat", src |-> parts, dst |-> dst, start |-> 0, len |-> 0]

\* an invocation that has not run yet, on the file of the track's take; ui
\* is the editor handler awaiting it ("none" when the invocation does not
\* come from the editor)
NewJob(op, track, startTime, endTime, ui) ==
    [op |-> op, track |-> track, inputLen |-> track.take.duration,
     startTime |-> startTime, endTime |-> endTime, ui |-> ui,
     pc |-> "start", audioDuration |-> Null, calls |-> <<>>,
     outcomes |-> <<>>, files |-> {}, created |-> {},
     partsToConcat |-> <<>>, copied |-> "none",
     result |-> "pending", error |-> "none",
     tempDir |-> 1, timestamp |-> Null, unlinkFails |-> {}]

\* the call writes its temporaries to tempDir, and unlinkSync throws for the
\* files named
Given(j, tempDir, unlinkFails) ==
    [j EXCEPT !.tempDir = tempDir, !.unlinkFails = unlinkFails]

FileLen(j, name) ==
    IF name = "input" THEN j.inputLen
    ELSE (CHOOSE f \in j.files : f.name = name).len

RECURSIVE SumLen(_, _)
\* length of the concatenation of the named files
SumLen(j, names) ==
    IF names = <<>> THEN 0
    ELSE FileLen(j, Head(names)) + SumLen(j, Tail(names))

\* the file a successful engine call writes: trim keeps what the source has
\* from start for at most len, a filter keeps the length, concat adds up
Output(j, call) ==
    [name |-> call.dst,
     len |-> CASE call.fn = "trim" ->
                    Max(0, Min(call.len,
                               FileLen(j, call.src[1]) - Max(0, call.start)))
               [] call.fn = "transform" -> FileLen(j, call.src[1])
               [] OTHER -> SumLen(j, call.src)]

WriteFile(j, f) ==
    [j EXCEPT !.files = {g \in @ : g.name # f.name} \cup {f},
              !.created = @ \cup {f.name}]

\* try { fs.unlinkSync(path) } catch { /* ignore */ } for each file named
Unlink(j, names) ==
    [j EXCEPT !.files = {f \in @ : f.name \notin names \ j.unlinkFails}]

\* the job issues an engine call and awaits it at pc
Await(j, pc, call) == [j EXCEPT !.pc = pc, !.calls = Append(@, call)]

\* concatenate() with two or more inputs: writes the list file, runs ffmpeg
concatenate(j, inputPaths, outputPath) ==
    Await(WriteFile(j, [name |-> "list", len |-> 0]), "concat",
          ConcatCall(inputPaths, outputPath))

\* the awaited engine call has ended (ok) or failed: its output is on disk
\* if it ended, the probed duration is known, and concatenate's end and
\* error callbacks both remove the list file
Settle(j, ok) ==
    LET call == j.calls[Len(j.calls)]
        j1 == [j EXCEPT !.outcomes = Append(@, ok)]
        j2 == IF call.fn = "concat" THEN Unlink(j1, {"list"}) ELSE j1
    IN  IF ~ok THEN j2
        ELSE IF call.fn = "probe"
        THEN [j2 EXCEPT !.audioDuration = j.inputLen]
        ELSE WriteFile(j2, Output(j, call))

\* the ipcMain handler's two returns
Resolve(j) == [j EXCEPT !.pc = "done", !.result = "success"]
Reject_asSuccess(j, err) ==
    [j EXCEPT !.pc = "done", !.result = "success", !.error = err]
Reject(j, err) ==
    [j EXCEPT !.pc = "done", !.result = "failure", !.error = err]

WholeAudio_strict(j) == j.startTime < 0 /\ j.endTime > j.audioDuration
WholeAudio(j) == j.startTime <= 0 /\ j.endTime >= j.audioDuration

deleteSelection_before_toEnd(j) == TrimCall("input", "before", 0, j.endTime)
\* "Extract part before selection"
deleteSelection_before(j) == TrimCall("input", "before", 0, j.startTime)

deleteSelection_keepEnd_viaTemporary(j) ==
    TrimCall("input", "after", j.endTime, j.audioDuration - j.endTime)
\* "If selection starts at beginning, just keep the end"
deleteSelection_keepEnd(j) ==
    TrimCall("input", "output", j.endTime, j.audioDuration - j.endTime)

\* deleteSelection from the end of the engine call it awaited at j.pc
AudioProcessor_deleteSelection(j) ==
    CASE j.pc = "probe" ->
            IF WholeAudio(j) THEN Reject(j, "Cannot delete entire audio")
            ELSE IF j.startTime <= 0
            THEN Await(j, "trimOnly", deleteSelection_keepEnd(j))
            ELSE IF j.endTime >= j.audioDuration
            THEN Await(j, "trimOnly",
                       TrimCall("input", "output", 0, j.startTime))
            ELSE Await(j, "trimBefore", deleteSelection_before(j))
      [] j.pc = "trimOnly" -> Resolve(j)
      [] j.pc = "trimBefore" ->
            Await(j, "trimAfter",
                  TrimCall("input", "after", j.endTime,
                           j.audioDuration - j.endTime))
      [] j.pc = "trimAfter" -> concatenate(j, <<"before", "after">>, "output")
      [] OTHER -> Resolve(Unlink(j, {"before", "after"}))

selectionCall_toEnd(j) ==
    TrimCall("input", "selection", j.startTime, j.endTime)
selectionCall(j) ==
    TrimCall("input", "selection", j.startTime, j.endTime - j.startTime)

Push(j, part) == [j EXCEPT !.partsToConcat = Append(@, part)]

\* a unlinkSync that throws ends the call
Cleanup_surfacing(j) ==
    IF \E f \in j.files : f.name \in TempFiles \cap j.unlinkFails
    THEN Reject(Unlink(j, TempFiles), "unlink")
    ELSE Resolve(Unlink(j, TempFiles))
\* applyEffectToSelection's clean-up and return
Cleanup(j) == Resolve(Unlink(j, TempFiles))

Finish_alwaysConcat(j) == concatenate(j, j.partsToConcat, "output")
\* "Concatenate all parts"
Finish(j) ==
    IF Len(j.partsToConcat) = 1
    THEN Cleanup([WriteFile(j, [name |-> "output",
                                len |-> FileLen(j, "processed")])
                  EXCEPT !.copied = "processed"])
    ELSE concatenate(j, j.partsToConcat, "output")

\* applyEffectToSelection from the end of the engine call it awaited at j.pc
AudioProcessor_applyEffectToSelection(j) ==
    CASE j.pc = "probe" ->
            IF j.startTime > 0
            THEN Await(j, "trimBefore",
                       TrimCall("input", "before", 0, j.startTime))
            ELSE Await(j, "trimSelection", selectionCall(j))
      [] j.pc = "trimBefore" ->
            Await(Push(j, "before"), "trimSelection", selectionCall(j))
      [] j.pc = "trimSelection" ->
            Await(j, "transform", FilterCall("selection", "processed"))
      [] j.pc = "transform" ->
            IF j.endTime < j.audioDuration
            THEN Await(Push(j, "processed"), "trimAfter",
                       TrimCall("input", "after", j.endTime,
                                j.audioDuration - j.endTime))
            ELSE Finish(Push(j, "processed"))
      [] j.pc = "trimAfter" -> Finish(Push(j, "after"))
      [] OTHER -> Cleanup(j)

\* the handler starts: what it runs up to its first await
Invoke(j) ==
    CASE j.op \in {"delete", "apply"} -> Await(j, "probe", ProbeCall)
      [] j.op = "trim" ->
            Await(j, "trimOnly",
                  TrimCall("input", "output", j.startTime,
                           j.endTime - j.startTime))
      [] OTHER -> Await(j, "transform", FilterCall("input", "output"))

\* const timestamp = Date.now(), once getDuration has returned
Stamp(j, ok, now) ==
    IF j.pc = "probe" /\ ok THEN [j EXCEPT !.timestamp = now] ELSE j

\* the awaited engine call ends or fails and the handler runs on to its
\* next await or to its return; a failure is thrown through to the
\* ipcMain handler, which returns it
Resume(j, ok) ==
    LET s == Settle(j, ok)
    IN  IF ~ok THEN Reject(s, j.pc)
        ELSE CASE j.op = "delete" -> AudioProcessor_deleteSelection(s)
               [] j.op = "apply" -> AudioProcessor_applyEffectToSelection(s)
               [] OTHER -> Resolve(s)

\* ------------------------------------------------------------------ inputs
\* ids passed to the store: every id in use and one that is not (a call
\* with an id nothing has does the same whichever id that is)
TrackIds == {tracks[i].id : i \in 1..Len(tracks)} \cup {AbsentId}
PointIds ==
    UNION {{tracks[i].envelopePoints[j].id :
               j \in 1..Len(tracks[i].envelopePoints)} : i \in 1..Len(tracks)}
    \cup {AbsentId}

Takes == {[filePath |-> 1, duration |-> d] : d \in Durations}

\* Partial<AudioTrack>: the mute toggle, and the take and duration an edit sets
TrackUpdates ==
    {[muted |-> TRUE],
     [take |-> [filePath |-> 2, duration |-> 2 * Sec], duration |-> 2 * Sec]}

\* Partial<EnvelopePoint>
PointUpdates ==
    {[volume |-> v] : v \in Volumes} \cup {[time |-> t] : t \in Times}

TrackLists == {<<>>, <<NewTrack(1, [filePath |-> 1, duration |-> Sec], 0)>>}

\* ------------------------------------------------------------------ actions
\* kinds of store calls: a bare saveToHistory, one of the operations that
\* change tracks, undo, redo, a query (canUndo/canRedo), reset, anything else
Kinds == {"save", "mut", "undo", "redo", "query", "reset", "other"}

\* progress through the call sequence save; A; save; B; undo; redo
\*   1 save   2 save;A   3 save;A;save   4 save;A;save;B
\*   5 save;A;save;B;undo   6 save;A;save;B;undo;redo   7 save;A;undo
PhaseAfter(p, kind) ==
    CASE kind = "save"  -> IF p \in {2, 4} THEN 3 ELSE 1
      [] kind = "mut"   -> IF p = 1 THEN 2 ELSE IF p = 3 THEN 4 ELSE 0
      [] kind = "undo"  -> IF p = 4 THEN 5 ELSE IF p = 2 THEN 7 ELSE 0
      [] kind = "redo"  -> IF p = 5 THEN 6 ELSE 0
      [] kind = "query" -> p
      [] OTHER          -> 0

\* value of lastSaved and preUndo while no call sequence is being followed
NoSnapshot == Snapshot(InitialState)

\* no setTimeout callback pending: plain ones clear the processing flag,
\* clear ones (applyEffect's) clear the selection as well
\* no speed effect has been applied
NoFilter == [scope |-> "none", ratio |-> 0, stages |-> <<>>]
\* applyVolumeEnvelope has not been called
NoEnvelope == [called |-> FALSE, copied |-> "none", engineCalls |-> 0,
               result |-> "none"]
NoTimers == [plain |-> 0, clear |-> 0]

\* the render the keydown handler was registered in
Closure(s) == [tracks |-> s.tracks, selectedTrackId |-> s.selectedTrackId]

\* the store goes to s2 by a call of the given kind
Commit(kind, s2) ==
    /\ tracks' = s2.tracks
    /\ selectedTrackId' = s2.selectedTrackId
    /\ selectedRegionStart' = s2.selectedRegionStart
    /\ selectedRegionEnd' = s2.selectedRegionEnd
    /\ cursorPosition' = s2.cursorPosition
    /\ currentTime' = s2.currentTime
    /\ duration' = s2.duration
    /\ history' = s2.history
    /\ historyIndex' = s2.historyIndex
    /\ error' = s2.error
    /\ lastKind' = kind
    /\ saves' = saves + s2.saved
    /\ phase' = LET p == IF s2.saved > 0 THEN PhaseAfter(phase, "save")
                         ELSE phase
                IN  IF kind = "save" THEN p ELSE PhaseAfter(p, kind)
    /\ lastSaved' = IF phase' \in {0, 6} THEN NoSnapshot
                    ELSE IF s2.saved > 0 THEN Live ELSE lastSaved
    /\ preUndo' = IF phase' \notin {5, 6} THEN NoSnapshot
                  ELSE IF kind = "undo" THEN Live ELSE preUndo
    /\ changed' = (s2.tracks # tracks)
    /\ discarded' = IF s2.saved > 0
                    THEN Len(history) - Len(Slice(history, historyIndex + 1))
                    ELSE -1

\* one store call of the given kind that takes the store to s2
Call(kind, s2) ==
    /\ budget > 0
    /\ budget' = budget - 1
    /\ Commit(kind, s2)
    /\ UNCHANGED auxVars

AddTrack ==
    /\ nextTrackId < MaxTracks
    /\ \E take \in Takes : Call("mut", addTrack(State, take, nextTrackId + 1))
    /\ nextTrackId' = nextTrackId + 1
    /\ ret' = FALSE
    /\ UNCHANGED nextPointId

RemoveTrack ==
    /\ \E trackId \in TrackIds : Call("mut", removeTrack(State, trackId))
    /\ ret' = FALSE
    /\ UNCHANGED <<nextTrackId, nextPointId>>

UpdateTrack ==
    /\ \E trackId \in TrackIds, updates \in TrackUpdates :
          Call("mut", updateTrack(State, trackId, updates))
    /\ ret' = FALSE
    /\ UNCHANGED <<nextTrackId, nextPointId>>

SetTracks ==
    /\ \E newTracks \in TrackLists : Call("mut", setTracks(State, newTracks))
    /\ ret' = FALSE
    /\ UNCHANGED <<nextTrackId, nextPointId>>

ClearTracks ==
    /\ Call("mut", clearTracks(State))
    /\ ret' = FALSE
    /\ UNCHANGED <<nextTrackId, nextPointId>>

SelectTrack ==
    /\ \E trackId \in TrackIds \cup {Null} :
          Call("other", selectTrack(State, trackId))
    /\ ret' = FALSE
    /\ UNCHANGED <<nextTrackId, nextPointId>>

SetSelection ==
    /\ \/ Call("other", setSelection(State, Null, Null))
       \/ \E start \in Times, end \in Times :
             Call("other", setSelection(State, start, end))
    /\ ret' = FALSE
    /\ UNCHANGED <<nextTrackId, nextPointId>>

SetCursorPosition ==
    /\ \E position \in Positions :
          Call("other", setCursorPosition(State, position))
    /\ ret' = FALSE
    /\ UNCHANGED <<nextTrackId, nextPointId>>

DeleteSelection ==
    /\ Call("other", deleteSelection(State))
    /\ ret' = FALSE
    /\ UNCHANGED <<nextTrackId, nextPointId>>

SplitAtCursor ==
    /\ Call("mut", splitAtCursor(State))
    /\ ret' = FALSE
    /\ UNCHANGED <<nextTrackId, nextPointId>>

SelectAll ==
    /\ Call("other", selectAll(State))
    /\ ret' = FALSE
    /\ UNCHANGED <<nextTrackId, nextPointId>>

ClearSelection ==
    /\ Call("other", clearSelection(State))
    /\ ret' = FALSE
    /\ UNCHANGED <<nextTrackId, nextPointId>>

AddEnvelopePoint ==
    /\ nextPointId < MaxPoints
    /\ \E trackId \in TrackIds, time \in Times, volume \in Volumes :
          Call("mut", addEnvelopePoint(State, trackId, time, volume,
                                      nextPointId + 1))
    /\ nextPointId' = nextPointId + 1
    /\ ret' = FALSE
    /\ UNCHANGED nextTrackId

UpdateEnvelopePoint ==
    /\ \E trackId \in TrackIds, pointId \in PointIds, updates \in PointUpdates :
          Call("mut", updateEnvelopePoint(State, trackId, pointId, updates))
    /\ ret' = FALSE
    /\ UNCHANGED <<nextTrackId, nextPointId>>

RemoveEnvelopePoint ==
    /\ \E trackId \in TrackIds, pointId \in PointIds :
          Call("mut", removeEnvelopePoint(State, trackId, pointId))
    /\ ret' = FALSE
    /\ UNCHANGED <<nextTrackId, nextPointId>>

SaveToHistory ==
    /\ Call("save", saveToHistory(State))
    /\ ret' = FALSE
    /\ UNCHANGED <<nextTrackId, nextPointId>>

Undo ==
    /\ Call("undo", undo(State))
    /\ ret' = FALSE
    /\ UNCHANGED <<nextTrackId, nextPointId>>

Redo ==
    /\ Call("redo", redo(State))
    /\ ret' = FALSE
    /\ UNCHANGED <<nextTrackId, nextPointId>>

CanUndo ==
    /\ Call("query", State)
    /\ ret' = canUndo(State)
    /\ UNCHANGED <<nextTrackId, nextPointId>>

CanRedo ==
    /\ Call("query", State)
    /\ ret' = canRedo(State)
    /\ UNCHANGED <<nextTrackId, nextPointId>>

Reset ==
    /\ Call("reset", reset(State))
    /\ ret' = FALSE
    /\ UNCHANGED <<nextTrackId, nextPointId>>

\* ----------------------------------------------------------- specification
InitWith(steps) ==
    /\ tracks = InitialState.tracks
    /\ selectedTrackId = InitialState.selectedTrackId
    /\ selectedRegionStart = InitialState.selectedRegionStart
    /\ selectedRegionEnd = InitialState.selectedRegionEnd
    /\ cursorPosition = InitialState.cursorPosition
    /\ currentTime = InitialState.currentTime
    /\ duration = InitialState.duration
    /\ history = InitialState.history
    /\ historyIndex = InitialState.historyIndex
    /\ error = FALSE
    /\ ret = FALSE
    /\ nextTrackId = 0
    /\ nextPointId = 0
    /\ budget = steps
    /\ lastKind = "other"
    /\ saves = 0
    /\ phase = 0
    /\ lastSaved = NoSnapshot
    /\ preUndo = NoSnapshot
    /\ changed = FALSE
    /\ discarded = -1
    /\ jobs = <<>>
    /\ processing = FALSE
    /\ timers = NoTimers
    /\ keyClosure = Closure(InitialState)
    /\ wavesurferInstances = <<>>
    /\ speed = 0
    /\ filters = <<>>
    /\ regionTrack = Null
    /\ volumePoints = <<>>
    /\ volumeExpr = <<>>
    /\ envelope = NoEnvelope
    /\ effectFilter = NoFilter
    /\ autoSaveTimer = 0
    /\ timeouts = <<>>
    /\ cancelled = FALSE
    /\ clock = 0

Init == InitWith(MaxSteps)

Next ==
    \/ AddTrack
    \/ RemoveTrack
    \/ UpdateTrack
    \/ SetTracks
    \/ ClearTracks
    \/ SelectTrack
    \/ SetSelection
    \/ SetCursorPosition
    \/ DeleteSelection
    \/ SplitAtCursor
    \/ SelectAll
    \/ ClearSelection
    \/ AddEnvelopePoint
    \/ UpdateEnvelopePoint
    \/ RemoveEnvelopePoint
    \/ SaveToHistory
    \/ Undo
    \/ Redo
    \/ CanUndo
    \/ CanRedo
    \/ Reset

Spec == Init /\ [][Next]_vars

\* SpecCap: saveToHistory called MaxPushes times in a row; before each push
\* but the first the selection is set to the number of pushes made so far, so
\* that every snapshot is told from the others
MarkSelection ==
    /\ Call("other", setSelection(State, saves, saves))
    /\ ret' = FALSE
    /\ UNCHANGED <<nextTrackId, nextPointId>>

InitCap == InitWith(2 * MaxPushes)

NextCap ==
    \/ lastKind # "save" /\ saves < MaxPushes /\ SaveToHistory
    \/ lastKind = "save" /\ MarkSelection

SpecCap == InitCap /\ [][NextCap]_vars

\* ------------------------------------------------- SpecPipe: the pipeline
\* one IPC invocation of deleteSelection or applyEffectToSelection with any
\* start and end, run to its return with every engine call ending or failing
PipeTimes == {-Sec, 0, Sec, 2 * Sec, 3 * Sec, 4 * Sec}
\* the files whose deletion can fail
UnlinkFailures == SUBSET (TempFiles \cup {"list"})
InputLens == {3 * Sec}
\* the file at inputPath, as a track no editor holds
InputFile(inputLen) ==
    NewTrack(AbsentId, [filePath |-> 1, duration |-> inputLen], 0)

\* the engine call job i awaits at pc ends or fails
EngineStep(i, pc, ok) ==
    /\ jobs[i].pc = pc
    /\ jobs' = [jobs EXCEPT ![i] = Resume(Stamp(@, ok, clock), ok)]
    /\ UNCHANGED <<callVars, editorVars, speed, filters,
                   regionTrack, lateVars>>

GetDuration ==
    \E i \in 1..Len(jobs), ok \in BOOLEAN : EngineStep(i, "probe", ok)
TrimOnly ==
    \E i \in 1..Len(jobs), ok \in BOOLEAN : EngineStep(i, "trimOnly", ok)
TrimBefore ==
    \E i \in 1..Len(jobs), ok \in BOOLEAN : EngineStep(i, "trimBefore", ok)
TrimSelection ==
    \E i \in 1..Len(jobs), ok \in BOOLEAN : EngineStep(i, "trimSelection", ok)
Transform ==
    \E i \in 1..Len(jobs), ok \in BOOLEAN : EngineStep(i, "transform", ok)
TrimAfter ==
    \E i \in 1..Len(jobs), ok \in BOOLEAN : EngineStep(i, "trimAfter", ok)
Concatenate ==
    \E i \in 1..Len(jobs), ok \in BOOLEAN : EngineStep(i, "concat", ok)

IpcDeleteSelection ==
    /\ jobs = <<>>
    /\ \E inputLen \in InputLens, startTime \in PipeTimes,
          endTime \in PipeTimes, unlinkFails \in UnlinkFailures :
          jobs' = <<Invoke(Given(NewJob("delete", InputFile(inputLen),
                                        startTime, endTime, "none"),
                                 1, unlinkFails))>>
    /\ UNCHANGED <<callVars, editorVars, speed, filters,
                   regionTrack, lateVars>>

IpcApplyEffectToSelection ==
    /\ jobs = <<>>
    /\ \E inputLen \in InputLens, startTime \in PipeTimes,
          endTime \in PipeTimes, unlinkFails \in UnlinkFailures :
          jobs' = <<Invoke(Given(NewJob("apply", InputFile(inputLen),
                                        startTime, endTime, "none"),
                                 1, unlinkFails))>>
    /\ UNCHANGED <<callVars, editorVars, speed, filters,
                   regionTrack, lateVars>>

NextPipe ==
    \/ IpcDeleteSelection
    \/ IpcApplyEffectToSelection
    \/ GetDuration
    \/ TrimOnly
    \/ TrimBefore
    \/ TrimSelection
    \/ Transform
    \/ TrimAfter
    \/ Concatenate

SpecPipe == Init /\ [][NextPipe]_vars

\* the jobs of the two selection pipelines
IsDelete(j) == j.op = "delete"
IsApply(j)  == j.op = "apply"
Returned(j) == j.pc = "done"
Job(i) == jobs[i]

\* ---------------------------------------------- SpecEditor: the editor
\* AdvancedAudioEditor: the component mounts with its takes, the waveform
\* reports regions and clicks, and the edit handlers run a pipeline call
\* each.  Pointer events reach the editor only while the processing overlay
\* is not shown; key presses reach it at any time.
MaxJobs   == 2    \* pipeline calls the editor issues
MaxEvents == 2    \* region and click events of the waveforms
NewPath   == 2    \* filePath of a pipeline call's output
RegionTimes == {0, Sec, 2 * Sec}
ClickTimes  == {0}

\* what Commit sets
commitVars == <<tracks, selectedTrackId, selectedRegionStart,
                selectedRegionEnd, cursorPosition, currentTime, duration,
                history, historyIndex, error, lastKind, saves, phase,
                lastSaved, preUndo, changed, discarded>>

\* what the handlers of the current render see
Render ==
    [tracks |-> tracks, selectedTrackId |-> selectedTrackId,
     selectedRegionStart |-> selectedRegionStart,
     selectedRegionEnd |-> selectedRegionEnd]

\* what the registered keydown handler sees: the selection is current (the
\* handler is registered again when it changes), the rest is of the render
\* it was registered in
KeyRender ==
    [tracks |-> keyClosure.tracks,
     selectedTrackId |-> keyClosure.selectedTrackId,
     selectedRegionStart |-> selectedRegionStart,
     selectedRegionEnd |-> selectedRegionEnd]

\* the keydown handler after a store update to s2
Rerender(s2) ==
    IF s2.selectedRegionStart # selectedRegionStart
       \/ s2.selectedRegionEnd # selectedRegionEnd
    THEN Closure(s2) ELSE keyClosure

HasSelection(v) == v.selectedRegionStart # Null /\ v.selectedRegionEnd # Null
HasSelectedTrack(v) ==
    v.selectedTrackId # Null /\ HasTrack(v.tracks, v.selectedTrackId)
TrackOf(v) == FindTrack(v.tracks, v.selectedTrackId)
\* the selection in the selected track's time
LocalStart(v) ==
    Min(v.selectedRegionStart, v.selectedRegionEnd) - TrackOf(v).offset
LocalEnd(v) ==
    Max(v.selectedRegionStart, v.selectedRegionEnd) - TrackOf(v).offset

\* the pipeline call applyEffect makes
applyEffect(v, applyToSelection) ==
    IF applyToSelection /\ HasSelection(v)
    THEN NewJob("apply", TrackOf(v), Max(0, LocalStart(v)),
                Min(TrackOf(v).duration, LocalEnd(v)), "applyEffect")
    ELSE NewJob("effect", TrackOf(v), 0, TrackOf(v).take.duration,
                "applyEffect")

\* handleDeleteSelection gets past its early returns
handleDeleteSelection_runs(v) ==
    /\ HasSelection(v)
    /\ HasSelectedTrack(v)
    /\ ~(LocalStart(v) < 0 \/ LocalEnd(v) > TrackOf(v).duration)
\* the pipeline call it makes then
handleDeleteSelection(v) ==
    NewJob("delete", TrackOf(v), LocalStart(v), LocalEnd(v),
           "handleDeleteSelection")

\* handleTrimToSelection: start, end, the early returns and the call
TrimStart(v) == Max(0, LocalStart(v))
TrimEnd(v) == Min(TrackOf(v).duration, LocalEnd(v))
handleTrimToSelection_runs(v) ==
    /\ HasSelection(v)
    /\ HasSelectedTrack(v)
    /\ ~(TrimEnd(v) - TrimStart(v) <= 0)
handleTrimToSelection(v) ==
    NewJob("trim", TrackOf(v), TrimStart(v), TrimEnd(v),
           "handleTrimToSelection")

\* a handler up to its await: saveToHistory(), setProcessing(true), the call
Begin(job) ==
    /\ Len(jobs) < MaxJobs
    /\ Commit("save", saveToHistory(State))
    /\ jobs' = Append(jobs, Invoke(job))
    /\ processing' = TRUE
    /\ ret' = FALSE
    /\ UNCHANGED <<budget, nextTrackId, nextPointId, timers, keyClosure,
                   wavesurferInstances, regionTrack, volumePoints,
                   volumeExpr, envelope, autoSaveTimer, timeouts, cancelled,
                   clock>>

\* a handler whose call is not a speed change
Start(job) ==
    /\ Begin(job)
    /\ UNCHANGED <<speed, filters, effectFilter>>

\* the Apply button of an effect
ApplyEffect ==
    /\ ~processing
    /\ HasSelectedTrack(Render)
    /\ \E applyToSelection \in BOOLEAN :
          Start(applyEffect(Render, applyToSelection))

\* the Delete Selection menu entry
HandleDeleteSelection ==
    /\ ~processing
    /\ selectedRegionStart # Null
    /\ handleDeleteSelection_runs(Render)
    /\ Start(handleDeleteSelection(Render))

\* the Delete and Backspace keys
HandleKeyDown ==
    /\ HasSelection(KeyRender)
    /\ handleDeleteSelection_runs(KeyRender)
    /\ Start(handleDeleteSelection(KeyRender))

\* the Trim to Selection button
HandleTrimToSelection ==
    /\ ~processing
    /\ selectedRegionStart # Null
    /\ handleTrimToSelection_runs(Render)
    /\ Start(handleTrimToSelection(Render))

\* a handler from its await to its end, the store going to s2 and one more
\* timer of the given kind pending
Return(i, ui, s2, timer) ==
    /\ jobs' = [jobs EXCEPT ![i].ui = ui]
    /\ IF s2 = State THEN UNCHANGED commitVars ELSE Commit("mut", s2)
    /\ keyClosure' = Rerender(s2)
    /\ timers' = IF timer = "none" THEN timers
                 ELSE [timers EXCEPT ![timer] = @ + 1]
    /\ UNCHANGED <<ret, budget, nextTrackId, nextPointId, processing,
                   wavesurferInstances, speed, filters,
                   regionTrack, lateVars>>

ApplyEffectReturn ==
    \E i \in 1..Len(jobs) :
        /\ Job(i).ui = "applyEffect"
        /\ Returned(Job(i))
        /\ LET track == Job(i).track
               newTake == [track.take EXCEPT !.filePath = NewPath]
           IN  IF Job(i).result = "success"
               THEN Return(i, "returned",
                           updateTrack(State, track.id, [take |-> newTake]),
                           "clear")
               ELSE Return(i, "returned", State, "plain")

HandleDeleteReturn ==
    \E i \in 1..Len(jobs) :
        /\ Job(i).ui = "handleDeleteSelection"
        /\ Returned(Job(i))
        /\ IF Job(i).result = "success"
           THEN Return(i, "getAudioDuration", State, "none")
           ELSE Return(i, "returned", State, "plain")

\* handleDeleteSelection from the probe of its result to its end
HandleDeleteProbed ==
    \E i \in 1..Len(jobs), ok \in BOOLEAN :
        /\ Job(i).ui = "getAudioDuration"
        /\ LET track == Job(i).track
               probed == FileLen(Job(i), "output")
               newDuration == IF ok /\ probed # 0 THEN probed
                              ELSE track.duration
               newTake == [track.take EXCEPT !.filePath = NewPath,
                                             !.duration = newDuration]
           IN  Return(i, "returned",
                      deleteSelection(clearSelection(
                          updateTrack(State, track.id,
                                      [take |-> newTake,
                                       duration |-> newDuration]))),
                      "plain")

HandleTrimReturn ==
    \E i \in 1..Len(jobs) :
        /\ Job(i).ui = "handleTrimToSelection"
        /\ Returned(Job(i))
        /\ LET track == Job(i).track
               trimDuration == Job(i).endTime - Job(i).startTime
               newTake == [track.take EXCEPT !.filePath = NewPath,
                                             !.duration = trimDuration]
           IN  IF Job(i).result = "success"
               THEN Return(i, "returned",
                           clearSelection(
                               updateTrack(State, track.id,
                                           [take |-> newTake,
                                            duration |-> trimDuration])),
                           "plain")
               ELSE Return(i, "returned", State, "plain")

\* setTimeout(() => setProcessing(false), ...)
TimerPlain ==
    /\ timers.plain > 0
    /\ timers' = [timers EXCEPT !.plain = @ - 1]
    /\ processing' = FALSE
    /\ UNCHANGED <<callVars, jobs, keyClosure, wavesurferInstances, speed,
                   filters,
                   regionTrack, lateVars>>

\* applyEffect's timer: setProcessing(false) and clearSelection()
TimerClear ==
    /\ timers.clear > 0
    /\ timers' = [timers EXCEPT !.clear = @ - 1]
    /\ processing' = FALSE
    /\ Commit("other", clearSelection(State))
    /\ keyClosure' = Rerender(clearSelection(State))
    /\ UNCHANGED <<ret, budget, nextTrackId, nextPointId, jobs,
                   wavesurferInstances, speed, filters,
                   regionTrack, lateVars>>

RECURSIVE AddAll(_, _, _)
\* takes.forEach((take) => addTrack(take))
AddAll(s, takes, id) ==
    IF takes = <<>> THEN s
    ELSE AddAll(addTrack(s, Head(takes), id), Tail(takes), id + 1)

TakeLists == {<<t>> : t \in Takes} \cup {<<t, u>> : t \in Takes, u \in Takes}

\* the component mounts: a track per take, a waveform per track
Mount ==
    /\ tracks = <<>>
    /\ wavesurferInstances = <<>>
    /\ \E takes \in TakeLists :
          LET s2 == AddAll(State, takes, nextTrackId + 1)
          IN  /\ Commit("mut", s2)
              /\ wavesurferInstances' = s2.tracks
              /\ nextTrackId' = nextTrackId + Len(takes)
    /\ UNCHANGED <<ret, budget, nextPointId, jobs, processing, timers,
                   keyClosure, speed, filters,
                   regionTrack, lateVars>>

\* a waveform event: the store goes to s2
Event(s2) ==
    /\ ~processing
    /\ budget > 0
    /\ budget' = budget - 1
    /\ Commit("other", s2)
    /\ keyClosure' = Rerender(s2)
    /\ UNCHANGED <<ret, nextTrackId, nextPointId, jobs, processing, timers,
                   wavesurferInstances, speed, filters, lateVars>>

\* region-created and region-updated of a track's waveform; the region lies
\* in the file the track shows
RegionCreated ==
    \E i \in 1..Len(wavesurferInstances), start \in RegionTimes,
       end \in RegionTimes :
        LET track == wavesurferInstances[i]
            regionStart == Max(0, start)
            regionEnd == Min(track.duration, end)
        IN  /\ HasTrack(tracks, track.id)
            /\ start <= end
            /\ end <= FindTrack(tracks, track.id).take.duration
            /\ Event(selectTrack(setSelection(State,
                                              track.offset + regionStart,
                                              track.offset + regionEnd),
                                 track.id))
            /\ regionTrack' = track.id

\* a click on a track's waveform
Interaction ==
    \E i \in 1..Len(wavesurferInstances), newTime \in ClickTimes :
        LET track == wavesurferInstances[i]
        IN  /\ HasTrack(tracks, track.id)
            /\ Event(selectTrack(setCursorPosition(State,
                                                   track.offset + newTime),
                                 track.id))
            /\ UNCHANGED regionTrack

InitEditor == InitWith(MaxEvents)

NextEditor ==
    \/ Mount
    \/ RegionCreated
    \/ Interaction
    \/ ApplyEffect
    \/ HandleDeleteSelection
    \/ HandleKeyDown
    \/ HandleTrimToSelection
    \/ GetDuration
    \/ TrimOnly
    \/ TrimBefore
    \/ TrimSelection
    \/ Transform
    \/ TrimAfter
    \/ Concatenate
    \/ ApplyEffectReturn
    \/ HandleDeleteReturn
    \/ HandleDeleteProbed
    \/ HandleTrimReturn
    \/ TimerPlain
    \/ TimerClear

SpecEditor == InitEditor /\ [][NextEditor]_vars

\* ---------------------------------------------- SpecSpeed: changeSpeed
\* A speed is a fraction <<numerator, denominator>>; halving and doubling
\* are exact in binary floating point, so the fractions follow the code's
\* numbers exactly.
SpeedDen   == 100   \* speeds are given in hundredths
MaxSpeed   == 900   \* the largest speed passed, in hundredths

\* the remainder first, then one atempo=2.0
SlowDown_remainderFirst(stages, currentSpeed) ==
    IF currentSpeed[1] > 2 * currentSpeed[2]
    THEN <<Append(stages, <<currentSpeed[1], 2 * currentSpeed[2]>>), <<2, 1>>>>
    ELSE <<stages, currentSpeed>>

RECURSIVE SlowDown(_, _)
\* while (currentSpeed > 2.0) { push atempo=2.0; currentSpeed /= 2.0 }
SlowDown(stages, currentSpeed) ==
    IF currentSpeed[1] > 2 * currentSpeed[2]
    THEN SlowDown(Append(stages, <<2, 1>>),
                  <<currentSpeed[1], 2 * currentSpeed[2]>>)
    ELSE <<stages, currentSpeed>>

RECURSIVE SpeedUp(_, _)
\* while (currentSpeed < 0.5) { push atempo=0.5; currentSpeed *= 2.0 }
SpeedUp(stages, currentSpeed) ==
    IF 2 * currentSpeed[1] < currentSpeed[2]
    THEN SpeedUp(Append(stages, <<1, 2>>),
                 <<2 * currentSpeed[1], currentSpeed[2]>>)
    ELSE <<stages, currentSpeed>>

\* one atempo stage whatever the speed
changeSpeed_singleStage(s) == <<s>>

\* the atempo stages changeSpeed chains for speed s
changeSpeed(s) ==
    LET down == SlowDown(<<>>, s)
        up == SpeedUp(down[1], down[2])
    IN  Append(up[1], up[2])

ChangeSpeed ==
    /\ \E n \in 1..MaxSpeed :
          /\ speed' = n
          /\ filters' = changeSpeed(<<n, SpeedDen>>)
    /\ UNCHANGED <<callVars, jobs, editorVars, regionTrack, lateVars>>

NextSpeed == ChangeSpeed

SpecSpeed == Init /\ [][NextSpeed]_vars

\* --------------------------------- SpecSpeedEffect: the Change Speed panel
\* the editor mounts, a region may be selected, and the panel's Apply runs
\* applyEffect('Speed', `atempo=${speedRatio}`, changeSpeed) with any ratio
\* of the slider and the 'apply to selection' box on or off
SliderMin  == 25     \* min="0.25"
SliderMax  == 400    \* max="4"
SliderStep == 5      \* step="0.05"
SpeedRatios ==
    {r \in SliderMin..SliderMax : (r - SliderMin) % SliderStep = 0}

\* the filter the engine gets: effectFilter as it is for a selection, the
\* chain changeSpeed builds for the whole track
SpeedFilter(speedRatio, toSelection) ==
    IF toSelection
    THEN [scope |-> "selection", ratio |-> speedRatio,
          stages |-> <<<<speedRatio, SpeedDen>>>>]
    ELSE [scope |-> "track", ratio |-> speedRatio,
          stages |-> changeSpeed(<<speedRatio, SpeedDen>>)]

\* the Apply button of the speed panel
ApplySpeed ==
    /\ ~processing
    /\ HasSelectedTrack(Render)
    /\ \E speedRatio \in SpeedRatios, applyToSelection \in BOOLEAN :
          LET toSelection == applyToSelection /\ HasSelection(Render)
          IN  /\ Begin(applyEffect(Render, applyToSelection))
              /\ effectFilter' = SpeedFilter(speedRatio, toSelection)
              /\ IF toSelection THEN UNCHANGED <<speed, filters>>
                 ELSE /\ speed' = speedRatio
                      /\ filters' = changeSpeed(<<speedRatio, SpeedDen>>)

NextSpeedEffect ==
    \/ Mount
    \/ RegionCreated
    \/ ApplySpeed

SpecSpeedEffect == InitEditor /\ [][NextSpeedEffect]_vars

\* -------------------------------------- SpecTracks: addTrack, removeTrack
\* the store reached by addTrack and removeTrack calls alone
NextTracks ==
    \/ AddTrack
    \/ RemoveTrack

SpecTracks == Init /\ [][NextTracks]_vars

\* ------------------------------ SpecEnvelope: applyVolumeEnvelope
\* one call of AudioProcessor.applyVolumeEnvelope with any point list, the
\* copy and the engine run ending or failing
MaxEnvelopePoints == 3
EnvelopeTimes == {0, Sec, 2 * Sec}
EnvelopeVolumes == {-6, 0}    \* dB
EnvelopePoints ==
    [time : EnvelopeTimes, volume : EnvelopeVolumes]
RECURSIVE ListsOf(_, _)
\* the lists of at most n elements of set
ListsOf(set, n) ==
    IF n = 0 THEN {<<>>}
    ELSE LET shorter == ListsOf(set, n - 1)
         IN  shorter \cup {Append(l, x) : l \in shorter, x \in set}
PointLists == ListsOf(EnvelopePoints, MaxEnvelopePoints)

\* the pieces of the expression text: a piece of syntax, a number as
\* written, and Math.pow(10, v / 20) of a volume of v dB
Sym(s) == [sym |-> s, val |-> 0]
Num(n) == [sym |-> "num", val |-> n]
Lin(volDb) == [sym |-> "pow(10,dB/20)", val |-> volDb]

\* `if(lt(t,${point.time}),${volLinear},`
BeforeFirst(point) ==
    <<Sym("if("), Sym("lt("), Sym("t"), Sym(","), Num(point.time), Sym(")"),
      Sym(","), Lin(point.volume), Sym(",")>>

\* `if(lt(t,${nextPoint.time}),${volLinear}+(${nextVolLinear}-${volLinear})
\*  *(t-${point.time})/${timeDiff},`
Interpolate(point, nextPoint) ==
    <<Sym("if("), Sym("lt("), Sym("t"), Sym(","), Num(nextPoint.time),
      Sym(")"), Sym(","), Lin(point.volume), Sym("+"), Sym("("),
      Lin(nextPoint.volume), Sym("-"), Lin(point.volume), Sym(")"),
      Sym("*"), Sym("("), Sym("t"), Sym("-"), Num(point.time), Sym(")"),
      Sym("/"), Num(nextPoint.time - point.time), Sym(",")>>

RECURSIVE PointsLoop(_, _, _)
\* the first loop from index i on (points[i] is the code's volumePoints[i-1])
PointsLoop(points, i, expr) ==
    IF i > Len(points) THEN expr
    ELSE LET point == points[i]
             first == IF i = 1 /\ point.time > 0
                      THEN expr \o BeforeFirst(point) ELSE expr
             piece == IF i + 1 <= Len(points)
                      THEN Interpolate(point, points[i + 1])
                      ELSE <<Lin(point.volume)>>
         IN  PointsLoop(points, i + 1, first \o piece)

\* "Close all the if statements": one ')' per point
CloseAll(points, expr) ==
    expr \o [k \in 1..Len(points) |-> Sym(")")]

\* the expression of a non-empty point list
BuildVolumeExpr(points) == CloseAll(points, PointsLoop(points, 1, <<>>))

\* every list runs the engine
applyVolumeEnvelope_alwaysFilter(points, copyOk) ==
    [expr |-> IF points = <<>> THEN <<>> ELSE BuildVolumeExpr(points),
     envelope |-> [called |-> TRUE, copied |-> "none", engineCalls |-> 1,
                   result |-> "pending"]]

\* the promise executor of applyVolumeEnvelope: what it compiles and does
\* before it returns
applyVolumeEnvelope(points, copyOk) ==
    IF Len(points) = 0
    THEN [expr |-> <<>>,
          envelope |-> [called |-> TRUE,
                        copied |-> IF copyOk THEN "copied" ELSE "failed",
                        engineCalls |-> 0,
                        result |-> IF copyOk THEN "resolved"
                                   ELSE "rejected"]]
    ELSE [expr |-> BuildVolumeExpr(points),
          envelope |-> [called |-> TRUE, copied |-> "none",
                        engineCalls |-> 1, result |-> "pending"]]

notEnvelopeVars == <<callVars, jobs, editorVars, speed, filters, regionTrack,
                     effectFilter, autoSaveTimer, timeouts, cancelled, clock>>

ApplyVolumeEnvelope ==
    /\ ~envelope.called
    /\ \E points \in PointLists, copyOk \in BOOLEAN :
          LET call == applyVolumeEnvelope(points, copyOk)
          IN  /\ volumePoints' = points
              /\ volumeExpr' = call.expr
              /\ envelope' = call.envelope
    /\ UNCHANGED notEnvelopeVars

\* .on('end', () => resolve(outputPath))
EnvelopeEnd ==
    /\ envelope.result = "pending"
    /\ envelope' = [envelope EXCEPT !.result = "resolved"]
    /\ UNCHANGED <<volumePoints, volumeExpr, notEnvelopeVars>>

\* .on('error', (err) => reject(err))
EnvelopeError ==
    /\ envelope.result = "pending"
    /\ envelope' = [envelope EXCEPT !.result = "rejected"]
    /\ UNCHANGED <<volumePoints, volumeExpr, notEnvelopeVars>>

NextEnvelope ==
    \/ ApplyVolumeEnvelope
    \/ EnvelopeEnd
    \/ EnvelopeError

SpecEnvelope == Init /\ [][NextEnvelope]_vars

\* ------------------------------------- SpecOverlap: concurrent invocations
\* the ipcMain handlers are async: a second deleteSelection or
\* applyEffectToSelection can start while the first awaits an engine call.
\* Each writes its temporaries next to its output path, named by the clock
\* value it read after its probe.
MaxClock == 1
TempDirs == {1, 2}
OverlapStarts == {Sec}
OverlapEnds == {2 * Sec}

\* `${tempDir}temp_${name}_${timestamp}.wav`
TempPath(j, name) ==
    [tempDir |-> j.tempDir, name |-> name, timestamp |-> j.timestamp]
\* the temporary paths job j has written to
TempPathsOf(j) == {TempPath(j, name) : name \in j.created \cap TempFiles}

\* a millisecond passes
Tick ==
    /\ clock < MaxClock
    /\ clock' = clock + 1
    /\ UNCHANGED <<callVars, jobs, editorVars, speed, filters, regionTrack,
                   volumePoints, volumeExpr, envelope, effectFilter,
                   autoSaveTimer, timeouts, cancelled>>

\* the invocations of the handler of op with their outputs in any directory
Ipc(op) ==
    {Invoke(Given(NewJob(op, InputFile(inputLen), startTime, endTime,
                         "none"),
                  tempDir, {})) :
        inputLen \in InputLens, startTime \in OverlapStarts,
        endTime \in OverlapEnds, tempDir \in TempDirs}

OverlapDeleteSelection ==
    /\ Len(jobs) < MaxJobs
    /\ \E job \in Ipc("delete") : jobs' = Append(jobs, job)
    /\ UNCHANGED <<callVars, editorVars, speed, filters,
                   regionTrack, lateVars>>

OverlapApplyEffectToSelection ==
    /\ Len(jobs) < MaxJobs
    /\ \E job \in Ipc("apply") : jobs' = Append(jobs, job)
    /\ UNCHANGED <<callVars, editorVars, speed, filters,
                   regionTrack, lateVars>>

NextOverlap ==
    \/ OverlapDeleteSelection
    \/ OverlapApplyEffectToSelection
    \/ Tick
    \/ GetDuration
    \/ TrimBefore
    \/ TrimSelection
    \/ Transform
    \/ TrimAfter
    \/ Concatenate

SpecOverlap == Init /\ [][NextOverlap]_vars

\* ------------------------------------- SpecAutoSave: the session auto-save
\* sessionManager's debounce timer: scheduleAutoSave and cancelAutoSave are
\* called at any time, a pending timer fires at any time, and the save a
\* fired timer started takes two awaited steps to return
MaxTimeouts == 3

\* clearTimeout(handle): a timer that has not fired never will
clearTimeout(all, handle) ==
    IF handle # 0 /\ all[handle] = "pending"
    THEN [all EXCEPT ![handle] = "cleared"]
    ELSE all

notAutoSaveVars == <<callVars, jobs, editorVars, speed, filters, regionTrack,
                     volumePoints, volumeExpr, envelope, effectFilter,
                     clock>>

\* scheduleAutoSave(sessionData, delayMs)
ScheduleAutoSave ==
    /\ Len(timeouts) < MaxTimeouts
    /\ timeouts' = Append(clearTimeout(timeouts, autoSaveTimer), "pending")
    /\ autoSaveTimer' = Len(timeouts) + 1
    /\ cancelled' = FALSE
    /\ UNCHANGED notAutoSaveVars

\* cancelAutoSave()
CancelAutoSave ==
    /\ timeouts' = clearTimeout(timeouts, autoSaveTimer)
    /\ autoSaveTimer' = 0
    /\ cancelled' = TRUE
    /\ UNCHANGED notAutoSaveVars

\* a timer fires: its callback calls saveSession, which awaits
\* getSessionPath()
TimerFires ==
    \E handle \in 1..Len(timeouts) :
        /\ timeouts[handle] = "pending"
        /\ timeouts' = [timeouts EXCEPT ![handle] = "getSessionPath"]
        /\ UNCHANGED <<autoSaveTimer, cancelled, notAutoSaveVars>>

\* getSessionPath() returns: saveSession awaits saveSessionSilent
SessionPathReturns ==
    \E handle \in 1..Len(timeouts) :
        /\ timeouts[handle] = "getSessionPath"
        /\ timeouts' = [timeouts EXCEPT ![handle] = "saveSessionSilent"]
        /\ UNCHANGED <<autoSaveTimer, cancelled, notAutoSaveVars>>

\* getSessionPath() throws: saveSession returns the error and the callback
\* runs to its end
SessionPathThrows ==
    \E handle \in 1..Len(timeouts) :
        /\ timeouts[handle] = "getSessionPath"
        /\ timeouts' = [timeouts EXCEPT ![handle] = "failed"]
        /\ autoSaveTimer' = 0
        /\ UNCHANGED <<cancelled, notAutoSaveVars>>

\* saveSessionSilent returns: saveSession returns and the callback runs to
\* its end, autoSaveTimer = null
SaveSessionReturns ==
    \E handle \in 1..Len(timeouts) :
        /\ timeouts[handle] = "saveSessionSilent"
        /\ timeouts' = [timeouts EXCEPT ![handle] = "saved"]
        /\ autoSaveTimer' = 0
        /\ UNCHANGED <<cancelled, notAutoSaveVars>>

NextAutoSave ==
    \/ ScheduleAutoSave
    \/ CancelAutoSave
    \/ TimerFires
    \/ SessionPathReturns
    \/ SessionPathThrows
    \/ SaveSessionReturns

SpecAutoSave == Init /\ [][NextAutoSave]_vars

\* ------------------------------------------------------------------ claims
\* the times of a point list are strictly ascending
StrictlyAscending(points) ==
    \A i \in 1..Len(points), j \in 1..Len(points) :
        i < j => points[i].time < points[j].time

\* C1: after saveToHistory(); A; saveToHistory(); B; undo() the live tracks
\* and selection are those that held right after A (when the second
\* saveToHistory ran).
C1_UndoRestoresStateAfterA == phase = 5 => Live = lastSaved

\* C2: after saveToHistory(); A; saveToHistory(); B; undo(); redo() the live
\* tracks and selection are those that held right after B (when undo was
\* called).
C2_RedoRestoresStateAfterB == phase = 6 => Live = preUndo

\* C3: from an empty history, after saveToHistory() and one mutation
\* canUndo() is true, and an undo() then restores the tracks and selection
\* saveToHistory captured.
C3_FirstEditUndoable ==
    /\ (phase = 2 /\ Len(history) = 1) => canUndo(State)
    /\ (phase = 7 /\ Len(history) = 1) => Live = lastSaved

\* C4: every call of one of the nine track-changing operations that changes
\* tracks has pushed a snapshot of the state it started from.
C4_MutationsSaveFirst ==
    [][(lastKind' = "mut" /\ tracks' # tracks)
          => /\ saves' = saves + 1
             /\ history' # <<>>
             /\ history'[Len(history')] = Live]_vars

\* C5: history is empty exactly when historyIndex = -1, and otherwise
\* 0 <= historyIndex < history.length.
C5_IndexInRange ==
    /\ (history = <<>>) <=> (historyIndex = -1)
    /\ history # <<>> => (0 <= historyIndex /\ historyIndex < Len(history))

\* C5 witness: undo has moved the index below the newest of two snapshots,
\* or reset has emptied a history that held snapshots
C5_Witness ==
    \/ lastKind = "undo" /\ Len(history) = 2 /\ historyIndex = 0
    \/ lastKind = "reset" /\ saves > 0 /\ history = <<>>

\* C6: the history never holds more than 50 snapshots; after n pushes it
\* holds the newest min(n, 50) of them in order (push k captured the
\* selection k - 1, the first push the empty selection), and after a push
\* historyIndex is that of the newest.
C6_CapKeepsNewest ==
    /\ Len(history) <= HistoryLimit
    /\ Len(history) = Min(saves, HistoryLimit)
    /\ \A i \in 1..Len(history) :
          LET k == saves - Len(history) + i
          IN  history[i].selectedRegionStart = (IF k = 1 THEN Null ELSE k - 1)
    /\ lastKind = "save" => historyIndex = Len(history) - 1

\* C6 witness: 60 pushes made, 50 snapshots left, the oldest being push 11
C6_Witness ==
    /\ saves = 60
    /\ Len(history) = 50
    /\ history[1].selectedRegionStart = 10
    /\ history[50].selectedRegionStart = 59
    /\ historyIndex = 49

\* C7: a saveToHistory keeps the snapshots up to historyIndex (less the
\* oldest when the limit is passed), drops those after it and appends one,
\* so that right after it historyIndex = history.length - 1 and canRedo()
\* is false.
C7_SaveDiscardsRedo ==
    [][saves' > saves
          => LET n == Len(history')
                 evicted == historyIndex + 2 - n
             IN  /\ evicted \in {0, 1}
                 /\ n <= HistoryLimit
                 /\ SubSeq(history', 1, n - 1)
                      = SubSeq(history, 1 + evicted, historyIndex + 1)
                 /\ historyIndex' = n - 1
                 /\ ~(historyIndex' < Len(history') - 1)]_vars

\* C7 witness: a bare saveToHistory has just dropped a redo snapshot
C7_Witness ==
    /\ lastKind = "save"
    /\ discarded > 0
    /\ historyIndex = Len(history) - 1

\* C8: undo() at historyIndex <= 0, redo() at historyIndex >=
\* history.length - 1, and canUndo()/canRedo() anywhere leave the store
\* unchanged and throw nothing.
C8_OutOfBoundsNoOp ==
    [][/\ (historyIndex <= 0) <=> ~canUndo(State)
       /\ (historyIndex >= Len(history) - 1) <=> ~canRedo(State)
       /\ (\/ lastKind' = "undo" /\ historyIndex <= 0
           \/ lastKind' = "redo" /\ historyIndex >= Len(history) - 1
           \/ lastKind' = "query")
             => UNCHANGED storeVars /\ error' = FALSE]_vars

\* C8 witness: undo called right after the first edit, where historyIndex = 0
C8_Witness ==
    /\ lastKind = "undo"
    /\ phase = 7
    /\ historyIndex = 0
    /\ Len(history) = 1
    /\ tracks # history[1].tracks

\* C9: no call but reset changes a stored snapshot: a call that runs no
\* saveToHistory leaves history as it is, and one that does leaves every
\* snapshot it keeps as it was.
C9_SnapshotsImmutable ==
    [][lastKind' # "reset"
          => IF saves' = saves
             THEN history' = history
             ELSE LET evicted == IF historyIndex + 2 > HistoryLimit
                                 THEN 1 ELSE 0
                  IN  \A i \in 1..(Len(history') - 1) :
                         /\ i + evicted <= Len(history)
                         /\ history'[i] = history[i + evicted]]_vars

\* C9 witness: a call that ran no saveToHistory has changed the tracks the
\* newest snapshot was taken from
C9_Witness ==
    /\ lastKind = "mut"
    /\ discarded = -1
    /\ changed
    /\ history # <<>>
    /\ history[Len(history)].tracks # <<>>
    /\ history[Len(history)].tracks # tracks

\* C10: the envelope points of every track are in ascending order of time
\* and no two of them have the same time.
C10_EnvelopeSortedNoDup ==
    \A i \in 1..Len(tracks) : StrictlyAscending(tracks[i].envelopePoints)

\* C11: when deleteSelection or applyEffectToSelection has returned, with
\* success or after a failed trim, transform or concat step, none of the
\* temporary files it created (before, selection, processed, after) is left.
C11_TemporariesDeleted ==
    \A i \in 1..Len(jobs) :
        (IsDelete(Job(i)) \/ IsApply(Job(i))) /\ Returned(Job(i))
        => \A f \in Job(i).files : f.name \notin TempFiles

IsPrefix(a, b) == Len(a) <= Len(b) /\ SubSeq(b, 1, Len(a)) = a

\* the engine calls C12 lists, for a job with 0 < start < end < duration
ExpectedCalls(j) ==
    <<ProbeCall,
      TrimCall("input", "before", 0, j.startTime),
      TrimCall("input", "selection", j.startTime, j.endTime - j.startTime),
      FilterCall("selection", "processed"),
      TrimCall("input", "after", j.endTime, j.inputLen - j.endTime),
      ConcatCall(<<"before", "processed", "after">>, "output")>>

Inside(j) == 0 < j.startTime /\ j.startTime < j.endTime
             /\ j.endTime < j.inputLen

\* C12: for 0 < start < end < duration applyEffectToSelection issues probe,
\* trim(0, start), trim(start, end - start), transform, trim(end, duration -
\* end), concat([before, processed, after]) in this order, each only after
\* the one before it has ended, and all six when it succeeds.
C12_ApplyCallOrder ==
    \A i \in 1..Len(jobs) :
        IsApply(Job(i)) /\ Inside(Job(i))
        => /\ IsPrefix(Job(i).calls, ExpectedCalls(Job(i)))
           /\ Len(Job(i).calls) <= Len(Job(i).outcomes) + 1
           /\ \A k \in 1..(Len(Job(i).calls) - 1) : Job(i).outcomes[k]
           /\ Job(i).result = "success"
              => Job(i).calls = ExpectedCalls(Job(i))

C12_Witness ==
    \E i \in 1..Len(jobs) :
        /\ IsApply(Job(i)) /\ Inside(Job(i))
        /\ Job(i).result = "success"
        /\ Len(Job(i).calls) = 6

\* the step an engine call belongs to
StepName(call) ==
    CASE call.fn = "probe" -> "probe"
      [] call.fn = "transform" -> "transform"
      [] call.fn = "concat" -> "concat"
      [] call.dst = "before" -> "trimBefore"
      [] call.dst = "selection" -> "trimSelection"
      [] call.dst = "after" -> "trimAfter"
      [] OTHER -> "trimOnly"

Failed(j) == \E k \in 1..Len(j.outcomes) : ~j.outcomes[k]
FirstFailure(j) ==
    CHOOSE k \in 1..Len(j.outcomes) :
        ~j.outcomes[k] /\ \A m \in 1..(k - 1) : j.outcomes[m]

\* C13: once the probe or a trim, transform or concat step of deleteSelection
\* or applyEffectToSelection has failed, the failed call is the last engine
\* call of the job, no call was issued twice, the job returns failure and
\* the error it returns is the failed step's.
C13_FailureAborts ==
    \A i \in 1..Len(jobs) :
        (IsDelete(Job(i)) \/ IsApply(Job(i))) /\ Failed(Job(i))
        => LET j == Job(i)
               k == FirstFailure(j)
           IN  /\ Len(j.calls) = k
               /\ Len(j.outcomes) = k
               /\ \A a \in 1..k, b \in 1..k : a < b => j.calls[a] # j.calls[b]
               /\ Returned(j)
               /\ j.result = "failure"
               /\ j.error = StepName(j.calls[k])

C13_Witness ==
    \E i \in 1..Len(jobs) :
        /\ IsApply(Job(i)) /\ Failed(Job(i))
        /\ FirstFailure(Job(i)) = 4
        /\ Job(i).error = "transform"

\* C14: deleteSelection with start <= 0 and end >= the probed duration makes
\* no engine call but the probe, creates no file, and returns the failure
\* "Cannot delete entire audio" as soon as the duration is known.
C14_WholeTrackDeleteFails ==
    \A i \in 1..Len(jobs) :
        /\ IsDelete(Job(i))
        /\ Job(i).startTime <= 0
        /\ Job(i).endTime >= Job(i).inputLen
        => /\ Job(i).calls = <<ProbeCall>>
           /\ Job(i).created = {}
           /\ Returned(Job(i)) => Job(i).result = "failure"
           /\ Job(i).audioDuration # Null
              => /\ Returned(Job(i))
                 /\ Job(i).error = "Cannot delete entire audio"

C14_Witness ==
    \E i \in 1..Len(jobs) :
        /\ IsDelete(Job(i))
        /\ Job(i).startTime = 0
        /\ Job(i).endTime = Job(i).inputLen
        /\ Job(i).audioDuration = Job(i).inputLen
        /\ Job(i).result = "failure"

\* C16: applyEffectToSelection with start <= 0 and end >= duration makes no
\* concat call, and when it succeeds its one part is the processed
\* selection and the output is the copy of it.
C16_WholeTrackApplyCopies ==
    \A i \in 1..Len(jobs) :
        /\ IsApply(Job(i))
        /\ Job(i).startTime <= 0
        /\ Job(i).endTime >= Job(i).inputLen
        => /\ \A k \in 1..Len(Job(i).calls) : Job(i).calls[k].fn # "concat"
           /\ Job(i).result = "success"
              => /\ Job(i).partsToConcat = <<"processed">>
                 /\ Job(i).copied = "processed"
                 /\ \E f \in Job(i).files : f.name = "output"

C16_Witness ==
    \E i \in 1..Len(jobs) :
        /\ IsApply(Job(i))
        /\ Job(i).startTime = 0
        /\ Job(i).endTime = Job(i).inputLen
        /\ Job(i).result = "success"
        /\ Job(i).copied = "processed"

\* start and end are in the track and do not cover all of it
PartOfTrack(j) ==
    /\ 0 <= j.startTime /\ j.startTime < j.endTime /\ j.endTime <= j.inputLen
    /\ ~(j.startTime <= 0 /\ j.endTime >= j.inputLen)

\* C17: for 0 <= start < end <= duration not covering the whole track, the
\* output of a successful deleteSelection has length duration - (end -
\* start).
C17_DeleteLength ==
    \A i \in 1..Len(jobs) :
        IsDelete(Job(i)) /\ PartOfTrack(Job(i)) /\ Job(i).result = "success"
        => FileLen(Job(i), "output")
             = Job(i).inputLen - (Job(i).endTime - Job(i).startTime)

C17_Witness ==
    \E i \in 1..Len(jobs) :
        /\ IsDelete(Job(i)) /\ PartOfTrack(Job(i))
        /\ Job(i).result = "success"
        /\ Len(Job(i).calls) = 4
        /\ FileLen(Job(i), "output") = 2 * Sec

\* the length of a job's range in track-local time clamped to [0, duration]
ClampedLength(j) == Min(j.track.duration, j.endTime) - Max(0, j.startTime)

InFlight(j) == j.ui # "none" /\ j.result = "pending"

\* C18: no two pipeline calls of the editor on the same track are in flight
\* at once.
C18_OneCallPerTrack ==
    \A a \in 1..Len(jobs), b \in 1..Len(jobs) :
        a < b /\ InFlight(Job(a)) /\ InFlight(Job(b))
        => Job(a).track.id # Job(b).track.id

RECURSIVE ProductNum(_)
RECURSIVE ProductDen(_)
\* numerator and denominator of the product of a list of fractions
ProductNum(stages) ==
    IF stages = <<>> THEN 1 ELSE Head(stages)[1] * ProductNum(Tail(stages))
ProductDen(stages) ==
    IF stages = <<>> THEN 1 ELSE Head(stages)[2] * ProductDen(Tail(stages))

\* C19: for a speed r in (0, 8] every stage changeSpeed emits has a ratio in
\* [0.5, 2.0] and the product of the stages' ratios is r.
C19_SpeedStages ==
    speed > 0 /\ speed <= 8 * SpeedDen
    => /\ \A k \in 1..Len(filters) :
              /\ filters[k][2] <= 2 * filters[k][1]
              /\ filters[k][1] <= 2 * filters[k][2]
       /\ ProductNum(filters) * SpeedDen = speed * ProductDen(filters)

C19_Witness ==
    /\ speed = 10
    /\ Len(filters) = 4
    /\ filters[4] = <<80, SpeedDen>>

\* C20: every addTrack call, in any state reached by addTrack and removeTrack
\* calls, leaves the timeline duration equal to the largest offset +
\* duration of the tracks then in the store.
C20_DurationIsMaxEnd == [][AddTrack => duration' = MaxEnd(tracks')]_vars

\* C21: applyVolumeEnvelope with an empty point list copies the input file to
\* the output path and makes no engine (filter) call.
C21_EmptyEnvelopeCopies ==
    envelope.called /\ volumePoints = <<>>
    => /\ envelope.engineCalls = 0
       /\ envelope.copied # "none"
       /\ envelope.result = "resolved" <=> envelope.copied = "copied"

C21_Witness ==
    /\ envelope.called
    /\ volumePoints = <<>>
    /\ envelope.result = "resolved"

\* the number of pieces of expr that are the piece of syntax s
Count(expr, s) == Cardinality({k \in 1..Len(expr) : expr[k] = Sym(s)})
RECURSIVE Closing(_)
\* the number of ')' the expression ends in
Closing(expr) ==
    IF expr = <<>> \/ expr[Len(expr)] # Sym(")") THEN 0
    ELSE 1 + Closing(SubSeq(expr, 1, Len(expr) - 1))

\* C22: for every non-empty point list sorted ascending by time with distinct
\* times (a first point at time 0 and a single point included) the compiled
\* expression closes as many ')' at its end as it opened 'if('.
C22_BalancedExpression ==
    envelope.called /\ volumePoints # <<>> /\ StrictlyAscending(volumePoints)
    => Closing(volumeExpr) = Count(volumeExpr, "if(")

\* the engine has answered the probe of job j with the duration
Probed(j) == j.audioDuration # Null /\ j.pc # "probe"

\* C27: a deleteSelection whose range touches exactly one end of the audio
\* makes exactly one trim, no concat, and writes no temporary file: for
\* start <= 0 < end < duration the trim is (input, end, duration - end), for
\* 0 < start < duration <= end it is (input, 0, start), both to the output.
C27_OneEndedDeleteTrimsOnce ==
    \A i \in 1..Len(jobs) :
        LET j == Job(i)
        IN  IsDelete(j) /\ Probed(j)
            => /\ j.startTime <= 0 /\ 0 < j.endTime
                  /\ j.endTime < j.audioDuration
                  => /\ j.calls = <<ProbeCall,
                                    TrimCall("input", "output", j.endTime,
                                             j.audioDuration - j.endTime)>>
                     /\ j.created \subseteq {"output"}
               /\ 0 < j.startTime /\ j.startTime < j.audioDuration
                  /\ j.audioDuration <= j.endTime
                  => /\ j.calls = <<ProbeCall,
                                    TrimCall("input", "output", 0,
                                             j.startTime)>>
                     /\ j.created \subseteq {"output"}

C27_Witness ==
    \E i \in 1..Len(jobs) :
        /\ IsDelete(Job(i))
        /\ Job(i).startTime < 0
        /\ Job(i).endTime = Sec
        /\ Job(i).result = "success"
        /\ Job(i).created = {"output"}
        /\ FileLen(Job(i), "output") = 2 * Sec

\* every engine call job j made has ended without an error
AllSucceeded(j) == \A k \in 1..Len(j.outcomes) : j.outcomes[k]
\* a temporary of job j is still on disk
TemporaryLeft(j) == \E f \in j.files : f.name \in TempFiles

\* C28: a deleteSelection or applyEffectToSelection whose engine calls all
\* succeeded and whose deletion of a temporary failed returns success with
\* the output written; the deletion error is not its error.
C28_DeletionFailureIgnored ==
    \A i \in 1..Len(jobs) :
        LET j == Job(i)
        IN  /\ IsDelete(j) \/ IsApply(j)
            /\ Returned(j) /\ AllSucceeded(j) /\ TemporaryLeft(j)
            => /\ j.result = "success"
               /\ j.error = "none"
               /\ \E f \in j.files : f.name = "output"

C28_Witness ==
    \E i \in 1..Len(jobs) :
        /\ IsApply(Job(i))
        /\ Job(i).result = "success"
        /\ Job(i).unlinkFails = {"selection", "after"}
        /\ {f.name : f \in Job(i).files} = {"selection", "after", "output"}

\* C29: two deleteSelection / applyEffectToSelection invocations that are in
\* progress at the same time have written no temporary file of the same
\* path, also when they write to the same directory and read the clock in
\* the same tick.
C29_DistinctTemporaries ==
    \A a \in 1..Len(jobs), b \in 1..Len(jobs) :
        a < b /\ Job(a).result = "pending" /\ Job(b).result = "pending"
        => TempPathsOf(Job(a)) \cap TempPathsOf(Job(b)) = {}

\* the handler that started job j has not run to its end
OpenEdit(j) == j.ui \notin {"none", "returned"}

\* C23: from an edit's saveToHistory() to the store update that completes
\* it, no step other than the edit's own changes the history (saveToHistory,
\* undo, redo) or the tracks.
C23_EditUninterrupted ==
    [][\A i \in 1..Len(jobs) :
          OpenEdit(jobs[i]) /\ jobs'[i].ui = jobs[i].ui
          => /\ saves' = saves
             /\ history' = history
             /\ historyIndex' = historyIndex
             /\ tracks' = tracks]_vars

\* C25: the range applyEffect or handleDeleteSelection passes to the
\* pipeline for a track was last set by a region of that track's waveform.
C25_RangeOfItsTrack ==
    [][Len(jobs') > Len(jobs)
       /\ jobs'[Len(jobs')].op \in {"apply", "delete"}
       /\ jobs'[Len(jobs')].ui # "none"
       => jobs'[Len(jobs')].track.id = regionTrack]_vars

\* C24: the filter a speed effect hands to the engine for a selected range
\* holds only tempo stages with a ratio in [0.5, 2.0], for every ratio of
\* the slider (0.25 to 4).
C24_SelectionSpeedStages ==
    effectFilter.scope = "selection"
    => \A k \in 1..Len(effectFilter.stages) :
           /\ effectFilter.stages[k][2] <= 2 * effectFilter.stages[k][1]
           /\ effectFilter.stages[k][1] <= 2 * effectFilter.stages[k][2]

RECURSIVE Pow2(_)
Pow2(n) == IF n = 0 THEN 1 ELSE 2 * Pow2(n - 1)

\* C26: for every ratio r > 0 changeSpeed's loops end with a stage list of
\* fewer than |log2 r| + 1 stages (one stage for r in [0.5, 2]) in which
\* every stage but the last is exactly 2.0 or 0.5.
C26_SpeedLoopBounded ==
    speed > 0
    => /\ Len(filters) >= 1
       /\ \A k \in 1..(Len(filters) - 1) : filters[k] \in {<<2, 1>>, <<1, 2>>}
       /\ \/ Len(filters) = 1
          \/ Pow2(Len(filters) - 1) * Min(speed, SpeedDen)
               < Max(speed, SpeedDen)

C26_Witness ==
    /\ speed = 9 * SpeedDen
    /\ Len(filters) = 4
    /\ filters[1] = <<2, 1>>
    /\ filters[3] = <<2, 1>>

\* the timers that have not fired and were not cleared
PendingTimers == {h \in 1..Len(timeouts) : timeouts[h] = "pending"}

\* C30: at most one auto-save timer is pending at any time, and once
\* cancelAutoSave() has returned no timer starts a session save until
\* scheduleAutoSave is called again.
C30_DebouncedAndCancellable ==
    /\ [](Cardinality(PendingTimers) <= 1)
    /\ [][cancelled
          => \A h \in 1..Len(timeouts) :
                 timeouts[h] = "pending" => timeouts'[h] = "pending"]_vars

====
